---- MODULE Spec2Model ----
(***************************************************************************)
(* Session lifecycle, request/response interceptor chain and mutation      *)
(* side effects of the Pennywise Finance frontend.                         *)
(*                                                                         *)
(* localStorage, the axios instance, the AuthContext state, the router     *)
(* location, the react-query cache, the LanguageProvider and the component *)
(* state of the mounted Transactions or Budgets page are the state; every  *)
(* user gesture, request dispatch and response completion is one action.   *)
(* JavaScript is single threaded, so a completion handler (interceptor,    *)
(* then the caller's continuation) runs as one atomic step.                *)
(*                                                                         *)
(* Spec follows the session and the requests one at a time.  CacheSpec,    *)
(* SessionSpec and FormSpec let two requests overlap and follow the data   *)
(* of the cache, sessions that succeed one another, and the add/edit form. *)
(***************************************************************************)
EXTENDS Integers, Sequences, FiniteSets, Bags, TLC

VARIABLES
    lsToken,      \* localStorage['token']
    lsUser,       \* localStorage['user']
    defaultsAuth, \* api.defaults.headers.Authorization (token it was built from)
    user,         \* AuthContext user state, read by App and Header
    authLoading,  \* Login/Register `loading` state: a submission is pending
    path,         \* router location, after App's <Navigate> redirects
    navPending,   \* window.location.href = '/login' assigned, document not yet replaced
    inflight,     \* number of requests awaiting their response, per endpoint use
    invalidated,  \* query keys marked invalidated and not yet refetched successfully
    effects,      \* observable effects of the last step, in program order
    server,       \* number of writes the backend has applied (version of its data)
    cache,        \* react-query data per query key: the version its payload shows
    asOf,         \* per query key in flight: the backend version when it was sent
    language,     \* LanguageProvider `language` state
    direction,    \* LanguageProvider `direction` state, the dir attribute App renders
    lsLanguage,   \* localStorage['language']
    sentWith,     \* per query key in flight: the Authorization value it was sent with
    cachedWith,   \* per query key holding data: the Authorization value that fetched it
    showAddForm,  \* Transactions/Budgets `showAddForm` state of the mounted page
    editing,      \* editingTransaction / editingBudget of the mounted page: a record id
    submitting    \* the create/update mutation of the mounted page that isLoading

\* the state of the LanguageProvider and its stored preference
langVars == <<language, direction, lsLanguage>>

vars == <<lsToken, lsUser, defaultsAuth, user, authLoading, path, navPending,
          inflight, invalidated, effects, server, cache, asOf, langVars,
          sentWith, cachedWith, showAddForm, editing, submitting>>

\* the component state of the mounted Transactions or Budgets page
formVars == <<showAddForm, editing, submitting>>

----------------------------------------------------------------------------
\* Bounds and value domains

MaxInflight == 1

\* requests that may overlap where the query cache is explored
MaxOverlap == 2

\* writes the backend accepts before it answers every further write with a failure
MaxWrites == 1

None == "none"
Tokens == {"t1", "t2"}
Users == {"u1"}
ServerMsg == "server-error-text"

\* `undefined` where a version of the backend's data is expected
Absent == -1

----------------------------------------------------------------------------
\* Routes and the queries / mutations each page owns

Paths == {"/login", "/register", "/dashboard", "/transactions", "/budgets",
          "/reports", "/settings"}

ProtectedPaths == {"/dashboard", "/transactions", "/budgets", "/reports", "/settings"}

\* Variant of App whose page routes are registered whether or not a user is present
Render_Unguarded(p, u) ==
    IF p \in {"/login", "/register"}
    THEN IF u # None THEN "/dashboard" ELSE p
    ELSE IF p \in ProtectedPaths THEN p ELSE "/dashboard"

\* App: the element rendered for a requested location, once redirects settle
Render(p, u) ==
    IF p \in {"/login", "/register"}
    THEN IF u # None THEN "/dashboard" ELSE p
    ELSE IF u # None
         THEN IF p \in ProtectedPaths THEN p ELSE "/dashboard"
         ELSE "/login"

DashboardQueries == {"financial-summary", "budget-status", "recent-transactions"}
TransactionsQueries == {"transactions", "transaction-categories"}
BudgetsQueries == {"budgets", "budget-status", "transaction-categories"}
SettingsQueries == {"alert-configs"}
ReportsQueries == {"financial-summary/monthly"}

QueryKeys == DashboardQueries \cup TransactionsQueries \cup BudgetsQueries
             \cup SettingsQueries \cup ReportsQueries

QueriesOf(p) ==
    CASE p = "/dashboard" -> DashboardQueries
      [] p = "/transactions" -> TransactionsQueries
      [] p = "/budgets" -> BudgetsQueries
      [] p = "/settings" -> SettingsQueries
      [] p = "/reports" -> ReportsQueries
      [] OTHER -> {}

TransactionsMutations == {"createTransaction", "updateTransaction",
                          "deleteTransaction", "importCSV"}
BudgetsMutations == {"createBudget", "updateBudget", "deleteBudget"}
SettingsMutations == {"updateProfile", "createAlert"}

Mutations == TransactionsMutations \cup BudgetsMutations \cup SettingsMutations

MutationsOf(p) ==
    CASE p = "/transactions" -> TransactionsMutations
      [] p = "/budgets" -> BudgetsMutations
      [] p = "/settings" -> SettingsMutations
      [] OTHER -> {}

AuthKinds == {"login", "register"}

Kinds == AuthKinds \cup QueryKeys \cup Mutations

\* react-query matches a filter key against the leading parts of a query key
QueryKeyParts(k) ==
    IF k = "financial-summary/monthly" THEN <<"financial-summary", "monthly">> ELSE <<k>>

Matches(filter, k) == QueryKeyParts(k)[1] = filter

\* Keys each mutation's onSuccess passes to invalidateQueries, in call order
InvalidateKeys(m) ==
    CASE m \in TransactionsMutations -> <<"transactions">>
      [] m \in BudgetsMutations -> <<"budgets", "budget-status">>
      [] m = "updateProfile" -> <<"current-user">>
      [] m = "createAlert" -> <<"alert-configs">>

SuccessText(m) ==
    CASE m = "createTransaction" -> "transactions.transactionAdded"
      [] m = "updateTransaction" -> "transactions.transactionUpdated"
      [] m = "deleteTransaction" -> "transactions.transactionDeleted"
      [] m = "importCSV" -> "transactions.csvImported"
      [] m = "createBudget" -> "budgets.budgetAdded"
      [] m = "updateBudget" -> "budgets.budgetUpdated"
      [] m = "deleteBudget" -> "budgets.budgetDeleted"
      [] m = "updateProfile" -> "settings.settingsSaved"
      [] m = "createAlert" -> "Alert configuration saved"
      [] m = "login" -> "auth.loginSuccess"
      [] m = "register" -> "auth.registerSuccess"

FallbackText(m) ==
    CASE m = "createTransaction" -> "Failed to create transaction"
      [] m = "updateTransaction" -> "Failed to update transaction"
      [] m = "deleteTransaction" -> "Failed to delete transaction"
      [] m = "importCSV" -> "transactions.csvImportError"
      [] m = "createBudget" -> "Failed to create budget"
      [] m = "updateBudget" -> "Failed to update budget"
      [] m = "deleteBudget" -> "Failed to delete budget"
      [] m = "updateProfile" -> "Failed to update profile"
      [] m = "createAlert" -> "Failed to save alert configuration"
      [] m = "login" -> "auth.loginError"
      [] m = "register" -> "auth.registerError"

----------------------------------------------------------------------------
\* The request each endpoint method of ApiService builds for each of its uses

Req(method, url, params, body) ==
    [method |-> method, url |-> url, params |-> params, body |-> body]

Request(kind) ==
    CASE kind = "login" -> Req("POST", "/auth/login/", None, "form")
      [] kind = "register" -> Req("POST", "/users/register/", None, "form")
      [] kind = "financial-summary" -> Req("GET", "/reports/summary/", "period=monthly", None)
      [] kind = "financial-summary/monthly" ->
            Req("GET", "/reports/summary/", "period=monthly", None)
      [] kind = "budget-status" -> Req("GET", "/budgets/status/", "period=monthly", None)
      [] kind = "recent-transactions" -> Req("GET", "/transactions/", "limit=5", None)
      [] kind = "transactions" -> Req("GET", "/transactions/", None, None)
      [] kind = "transaction-categories" -> Req("GET", "/transactions/categories/", None, None)
      [] kind = "budgets" -> Req("GET", "/budgets/", None, None)
      [] kind = "alert-configs" -> Req("GET", "/alert-configs/", None, None)
      [] kind = "createTransaction" -> Req("POST", "/transactions/", None, "form")
      [] kind = "updateTransaction" -> Req("PATCH", "/transactions/:id/", None, "form")
      [] kind = "deleteTransaction" -> Req("DELETE", "/transactions/:id/", None, None)
      [] kind = "importCSV" -> Req("POST", "/transactions/import_csv/", None, "file")
      [] kind = "createBudget" -> Req("POST", "/budgets/", None, "form")
      [] kind = "updateBudget" -> Req("PATCH", "/budgets/:id/", None, "form")
      [] kind = "deleteBudget" -> Req("DELETE", "/budgets/:id/", None, None)
      [] kind = "updateProfile" -> Req("GET", "/users/me/", None, None)
      [] kind = "createAlert" -> Req("POST", "/alert-configs/", None, "form")

WriteMethods == {"POST", "PATCH", "DELETE"}

\* The backend resource a write changes
WritesTo(m) ==
    CASE m \in TransactionsMutations -> {"transactions"}
      [] m \in BudgetsMutations -> {"budgets"}
      [] m = "createAlert" -> {"alert-configs"}
      [] OTHER -> {}

\* The backend resources the payload of a read is computed from
ReadsFrom(k) ==
    CASE k \in {"transactions", "recent-transactions"} -> {"transactions"}
      [] k \in {"financial-summary", "financial-summary/monthly"} -> {"transactions"}
      [] k = "budget-status" -> {"transactions", "budgets"}
      [] k = "budgets" -> {"budgets"}
      [] k = "alert-configs" -> {"alert-configs"}
      [] OTHER -> {}

\* the request changes data on the backend
Writes(kind) == Request(kind).method \in WriteMethods

----------------------------------------------------------------------------
\* Responses the server (or the transport) can produce.  status 0 stands for
\* a network failure: the axios error then has no `response` at all.

Statuses == {200, 400, 401, 500, 0}

FailureResponses ==
    {[status |-> s, error |-> e, token |-> None, user |-> None] :
        s \in {400, 401, 500}, e \in {ServerMsg, None}}
    \cup {[status |-> 0, error |-> None, token |-> None, user |-> None]}

\* 2xx with an empty body: a read that shows nothing, a write that changed nothing
PlainSuccess == [status |-> 200, error |-> None, token |-> None, user |-> None,
                 data |-> Absent, applied |-> FALSE]

\* 2xx to a read, showing the backend's data at version `data`
ReadSuccesses ==
    {[status |-> 200, error |-> None, token |-> None, user |-> None,
      data |-> v, applied |-> FALSE] : v \in 0..MaxWrites}

\* 2xx to a write the backend has applied
WriteSuccess == [status |-> 200, error |-> None, token |-> None, user |-> None,
                 data |-> Absent, applied |-> TRUE]

AuthSuccesses ==
    {[status |-> 200, error |-> None, token |-> t, user |-> u] :
        t \in Tokens, u \in Users}

\* error.response?.data?.error
ResponseError(resp) == IF resp.status = 0 THEN None ELSE resp.error

\* JavaScript a || b on message strings
OrElse(a, b) == IF a # None THEN a ELSE b

----------------------------------------------------------------------------
\* ApiService

\* Request interceptor: the Authorization value the outgoing config carries.
\* The config starts from the instance defaults; a stored token overwrites it.
RequestInterceptor(defaults, token) ==
    IF token # None THEN token ELSE defaults

\* Variants of the response interceptor with one statement changed
ResponseInterceptor_KeepsUser(resp, st) ==
    IF resp.status = 401
    THEN [token |-> None, user |-> st.user, nav |-> TRUE,
          fx |-> <<<<"redirect", "/login", None>>>>]
    ELSE st

ResponseInterceptor_NoRedirect(resp, st) ==
    IF resp.status = 401
    THEN [token |-> None, user |-> None, nav |-> st.nav, fx |-> <<>>]
    ELSE st

ResponseInterceptor_KeepsToken(resp, st) ==
    IF resp.status = 401
    THEN [token |-> st.token, user |-> None, nav |-> TRUE,
          fx |-> <<<<"redirect", "/login", None>>>>]
    ELSE st

ResponseInterceptor_Skips401(resp, st) == st

ResponseInterceptor_AnyFailure(resp, st) ==
    IF resp.status # 200
    THEN [token |-> None, user |-> None, nav |-> TRUE,
          fx |-> <<<<"redirect", "/login", None>>>>]
    ELSE st

\* Variant whose error branch sends the failed request again
ResponseInterceptor_Retries(resp, st) ==
    IF resp.status = 401
    THEN [token |-> None, user |-> None, nav |-> TRUE,
          fx |-> <<<<"redirect", "/login", None>>>>]
    ELSE [st EXCEPT !.fx = st.fx \o <<<<"send", "again", st.token>>>>]

\* Variant whose error branch handles a 401 only while a token is stored
ResponseInterceptor_FirstOnly(resp, st) ==
    IF resp.status = 401 /\ st.token # None
    THEN [token |-> None, user |-> None, nav |-> TRUE,
          fx |-> <<<<"redirect", "/login", None>>>>]
    ELSE st

\* Response interceptor, error branch: the Token Store and the navigation
\* signal after it ran; the error is re-thrown to the caller in every case.
ResponseInterceptor(resp, st) ==
    IF resp.status = 401
    THEN [token |-> None, user |-> None, nav |-> TRUE,
          fx |-> <<<<"redirect", "/login", None>>>>]
    ELSE st

\* Variant of setAuthToken whose else branch deletes nothing
SetAuthToken_KeepsOnNull(token) ==
    IF token # None THEN token ELSE defaultsAuth

\* setAuthToken: the new value of api.defaults.headers.Authorization
SetAuthToken(token) ==
    IF token # None THEN token ELSE None

----------------------------------------------------------------------------
\* Helpers over the in-flight requests

\* inflight is a bag of endpoint uses
Total(b) == BagCardinality(b)

NoRequests == EmptyBag

Count(b, k) == CopiesIn(k, b)

Add(b, k) == b (+) SetToBag({k})

Remove(b, k) == b (-) SetToBag({k})

AuthHeader == RequestInterceptor(defaultsAuth, lsToken)

Send(k) == <<"send", k, AuthHeader>>

StoreNow == [token |-> lsToken, user |-> lsUser, nav |-> navPending, fx |-> <<>>]

\* a query cache without entries
NoData == [k \in QueryKeys |-> Absent]

\* no query is tagged with an Authorization value
NoTags == [k \in QueryKeys |-> None]

Session ==
    IF user # None THEN "Authenticated"
    ELSE IF authLoading THEN "Authenticating"
    ELSE "Unauthenticated"

----------------------------------------------------------------------------
\* AuthContext (session controller)

\* login / register resolved: token and identity are stored, the client is
\* given the token, the application is told about the new identity
AuthStore(resp) ==
    [token |-> resp.token, luser |-> resp.user,
     defaults |-> SetAuthToken(resp.token), user |-> resp.user]

\* logout: every session field is cleared
AuthClear ==
    [token |-> None, luser |-> None, defaults |-> SetAuthToken(None), user |-> None]

\* process start: a stored token is trusted without asking the server
AuthInit(token, luser) ==
    IF token # None
    THEN [defaults |-> SetAuthToken(token), user |-> luser]
    ELSE [defaults |-> None, user |-> None]

----------------------------------------------------------------------------
\* The add/edit form of the Transactions and Budgets pages

RecordIds == {"r1", "r2"}

FormPages == {"/transactions", "/budgets"}

ListKey(p) == IF p = "/transactions" THEN "transactions" ELSE "budgets"

CreateOf(p) == IF p = "/transactions" THEN "createTransaction" ELSE "createBudget"

UpdateOf(p) == IF p = "/transactions" THEN "updateTransaction" ELSE "updateBudget"

DeleteOf(p) == IF p = "/transactions" THEN "deleteTransaction" ELSE "deleteBudget"

Creates == {CreateOf(p) : p \in FormPages}

Updates == {UpdateOf(p) : p \in FormPages}

Deletes == {DeleteOf(p) : p \in FormPages}

\* the mutations whose isLoading disables the submit control
FormMutations == Creates \cup Updates

\* a freshly mounted page: form hidden, nothing edited, nothing submitted
NoForm == [showAddForm |-> FALSE, editing |-> None, submitting |-> None]

\* the component state after the callbacks of an answered mutation.  The
\* callbacks of a request sent by an unmounted instance set no state of the
\* mounted one (own = FALSE).
FormAfter(m, resp, own) ==
    [showAddForm |-> IF own /\ resp.status = 200 /\ m \in Creates
                     THEN FALSE ELSE showAddForm,
     editing |-> IF own /\ resp.status = 200 /\ m \in Updates
                 THEN None ELSE editing,
     submitting |-> IF own THEN None ELSE submitting]

----------------------------------------------------------------------------
\* LanguageProvider

\* the languages the header toggle and the settings page pass to changeLanguage
Languages == {"en", "fa"}

\* the direction both the mount effect and changeLanguage derive from a language
Direction(lang) == IF lang = "fa" THEN "rtl" ELSE "ltr"

\* LanguageProvider's mount effect: the stored preference, or 'en' without one
LanguageInit(stored) ==
    LET savedLanguage == OrElse(stored, "en") IN
    [language |-> savedLanguage, direction |-> Direction(savedLanguage),
     stored |-> stored]

\* Variant of changeLanguage without localStorage.setItem
ChangeLanguage_NoStore(lang, stored) ==
    [language |-> lang, direction |-> Direction(lang), stored |-> stored]

\* Variant of changeLanguage without setDirection
ChangeLanguage_KeepsDirection(lang, stored) ==
    [language |-> lang, direction |-> direction, stored |-> lang]

\* changeLanguage(lang): state, direction and the stored preference
ChangeLanguage(lang, stored) ==
    [language |-> lang, direction |-> Direction(lang), stored |-> lang]

----------------------------------------------------------------------------
Init ==
    /\ lsToken = None
    /\ lsUser = None
    /\ defaultsAuth = None
    /\ user = None
    /\ authLoading = FALSE
    /\ path = "/login"
    /\ navPending = FALSE
    /\ language = LanguageInit(None).language
    /\ direction = LanguageInit(None).direction
    /\ lsLanguage = None
    /\ sentWith = NoTags
    /\ cachedWith = NoTags
    /\ showAddForm = NoForm.showAddForm
    /\ editing = NoForm.editing
    /\ submitting = NoForm.submitting
    /\ inflight = NoRequests
    /\ invalidated = {}
    /\ effects = <<>>
    /\ server = 0
    /\ cache = NoData
    /\ asOf = NoData

AuthPath(kind) == IF kind = "login" THEN "/login" ELSE "/register"

\* Variant of onSubmit without setLoading(true)
Submit_NoLoading(kind) ==
    /\ path = AuthPath(kind)
    /\ user = None
    /\ ~authLoading
    /\ inflight' = Add(inflight, kind)
    /\ effects' = <<Send(kind)>>
    /\ UNCHANGED <<lsToken, lsUser, defaultsAuth, user, authLoading, path,
                   navPending, invalidated, server, cache, asOf>>
    /\ UNCHANGED langVars
    /\ UNCHANGED <<sentWith, cachedWith>>
    /\ UNCHANGED formVars

\* Login.onSubmit / Register.onSubmit up to the await: setLoading(true) and
\* the request leaves through the request interceptor
Submit(kind) ==
    /\ path = AuthPath(kind)
    /\ user = None
    /\ ~authLoading
    /\ authLoading' = TRUE
    /\ inflight' = Add(inflight, kind)
    /\ effects' = <<Send(kind)>>
    /\ UNCHANGED <<lsToken, lsUser, defaultsAuth, user, path, navPending, invalidated,
                   server, cache, asOf>>
    /\ UNCHANGED langVars
    /\ UNCHANGED <<sentWith, cachedWith>>
    /\ UNCHANGED formVars

\* Variant of onSubmit without the finally block
AuthResponse_NoFinally(kind, resp) ==
    /\ Count(inflight, kind) > 0
    /\ inflight' = Remove(inflight, kind)
    /\ authLoading' = (IF resp.status = 200 THEN FALSE ELSE authLoading)
    /\ IF resp.status = 200
       THEN LET a == AuthStore(resp) IN
            /\ lsToken' = a.token
            /\ lsUser' = a.luser
            /\ defaultsAuth' = a.defaults
            /\ user' = a.user
            /\ path' = Render(path, a.user)
            /\ navPending' = navPending
            /\ effects' = <<<<"settle", "resolve", None>>,
                            <<"toast", "success", SuccessText(kind)>>>>
       ELSE LET st == ResponseInterceptor(resp, StoreNow) IN
            /\ lsToken' = st.token
            /\ lsUser' = st.user
            /\ navPending' = st.nav
            /\ effects' = st.fx
                          \o <<<<"settle", "reject", None>>,
                               <<"toast", "error",
                                 OrElse(ResponseError(resp), FallbackText(kind))>>>>
            /\ UNCHANGED <<defaultsAuth, user, path>>
    /\ UNCHANGED <<invalidated, server, cache, asOf>>
    /\ UNCHANGED langVars
    /\ UNCHANGED <<sentWith, cachedWith>>
    /\ UNCHANGED formVars

\* Login.onSubmit / Register.onSubmit after the await
AuthResponse(kind, resp) ==
    /\ Count(inflight, kind) > 0
    /\ inflight' = Remove(inflight, kind)
    /\ authLoading' = FALSE
    /\ IF resp.status = 200
       THEN LET a == AuthStore(resp) IN
            /\ lsToken' = a.token
            /\ lsUser' = a.luser
            /\ defaultsAuth' = a.defaults
            /\ user' = a.user
            /\ path' = Render(path, a.user)
            /\ navPending' = navPending
            /\ effects' = <<<<"settle", "resolve", None>>,
                            <<"toast", "success", SuccessText(kind)>>>>
       ELSE LET st == ResponseInterceptor(resp, StoreNow) IN
            /\ lsToken' = st.token
            /\ lsUser' = st.user
            /\ navPending' = st.nav
            /\ effects' = st.fx
                          \o <<<<"settle", "reject", None>>,
                               <<"toast", "error",
                                 OrElse(ResponseError(resp), FallbackText(kind))>>>>
            /\ UNCHANGED <<defaultsAuth, user, path>>
    /\ UNCHANGED <<invalidated, server, cache, asOf>>
    /\ UNCHANGED langVars
    /\ UNCHANGED <<sentWith, cachedWith>>
    /\ UNCHANGED formVars

\* useQuery isLoading: no data yet and the first fetch is running
IsLoading(k) == cache[k] = Absent /\ Count(inflight, k) > 0

\* the Transactions or Budgets page renders its header, form and table
PageShown ==
    /\ user # None
    /\ path \in FormPages
    /\ ~IsLoading(ListKey(path))

\* whether the answered request of mutation m was sent by the mounted page
Owns(m) ==
    IF submitting # m THEN {FALSE}
    ELSE IF Count(inflight, m) > 1 THEN {TRUE, FALSE}
    ELSE {TRUE}

\* Header.handleLogout
Logout ==
    /\ user # None
    /\ LET a == AuthClear IN
       /\ lsToken' = a.token
       /\ lsUser' = a.luser
       /\ defaultsAuth' = a.defaults
       /\ user' = a.user
       /\ path' = Render(path, a.user)
    /\ effects' = <<>>
    /\ UNCHANGED <<authLoading, navPending, inflight, invalidated, server, cache, asOf>>
    /\ UNCHANGED langVars
    /\ UNCHANGED <<sentWith, cachedWith>>
    /\ showAddForm' = NoForm.showAddForm /\ editing' = NoForm.editing /\ submitting' = NoForm.submitting

\* A client-side route change (Sidebar NavLink, Login/Register Link)
Navigate(p) ==
    /\ p # path
    /\ Render(p, user) = p
    /\ path' = p
    /\ effects' = <<>>
    /\ UNCHANGED <<lsToken, lsUser, defaultsAuth, user, authLoading, navPending,
                   inflight, invalidated, server, cache, asOf>>
    /\ UNCHANGED langVars
    /\ UNCHANGED <<sentWith, cachedWith>>
    /\ showAddForm' = NoForm.showAddForm /\ editing' = NoForm.editing /\ submitting' = NoForm.submitting

\* What a read sent at backend version `sent` can show when it is answered at
\* version `now`: the backend served it at some moment in between
Payloads(sent, now) == sent..now

\* Variant in which every observer of a key starts a request of its own
FetchQuery_NoDedup(k) ==
    /\ user # None
    /\ k \in QueriesOf(path)
    /\ inflight' = Add(inflight, k)
    /\ asOf' = [asOf EXCEPT ![k] = server]
    /\ effects' = <<Send(k)>>
    /\ UNCHANGED <<lsToken, lsUser, defaultsAuth, user, authLoading, path,
                   navPending, invalidated, server, cache>>
    /\ UNCHANGED langVars
    /\ sentWith' = [sentWith EXCEPT ![k] = AuthHeader] /\ UNCHANGED cachedWith
    /\ UNCHANGED formVars

\* A mounted useQuery fetches: on mount, on its refetchInterval, on focus.
\* Observers of one key share one request.
FetchQuery(k) ==
    /\ user # None
    /\ k \in QueriesOf(path)
    /\ Count(inflight, k) = 0
    /\ inflight' = Add(inflight, k)
    /\ asOf' = [asOf EXCEPT ![k] = server]
    /\ effects' = <<Send(k)>>
    /\ UNCHANGED <<lsToken, lsUser, defaultsAuth, user, authLoading, path,
                   navPending, invalidated, server, cache>>
    /\ UNCHANGED langVars
    /\ sentWith' = [sentWith EXCEPT ![k] = AuthHeader] /\ UNCHANGED cachedWith
    /\ UNCHANGED formVars

\* Variant that drops the entry's data when the fetch failed
QueryResponse_BlanksOnError(k, resp) ==
    /\ k \in QueryKeys
    /\ Count(inflight, k) > 0
    /\ inflight' = Remove(inflight, k)
    /\ asOf' = [asOf EXCEPT ![k] = Absent]
    /\ IF resp.status = 200
       THEN /\ resp.data \in Payloads(asOf[k], server) \cup {Absent}
            /\ cache' = [cache EXCEPT ![k] = resp.data]
            /\ invalidated' = invalidated \ {k}
            /\ effects' = <<<<"settle", "resolve", None>>>>
            /\ UNCHANGED <<lsToken, lsUser, navPending>>
       ELSE LET st == ResponseInterceptor(resp, StoreNow) IN
            /\ lsToken' = st.token
            /\ lsUser' = st.user
            /\ navPending' = st.nav
            /\ cache' = [cache EXCEPT ![k] = Absent]
            /\ effects' = st.fx \o <<<<"settle", "reject", None>>>>
            /\ UNCHANGED invalidated
    /\ UNCHANGED <<defaultsAuth, user, authLoading, path, server>>
    /\ UNCHANGED langVars
    /\ sentWith' = [sentWith EXCEPT ![k] = None]
    /\ cachedWith' = [cachedWith EXCEPT ![k] = IF cache'[k] = Absent THEN None
                                             ELSE IF resp.status = 200 THEN sentWith[k]
                                             ELSE cachedWith[k]]
    /\ UNCHANGED formVars

\* The response of a query: response interceptor, then the cache
QueryResponse(k, resp) ==
    /\ k \in QueryKeys
    /\ Count(inflight, k) > 0
    /\ inflight' = Remove(inflight, k)
    /\ asOf' = [asOf EXCEPT ![k] = Absent]
    /\ IF resp.status = 200
       THEN /\ resp.data \in Payloads(asOf[k], server) \cup {Absent}
            /\ cache' = [cache EXCEPT ![k] = resp.data]
            /\ invalidated' = invalidated \ {k}
            /\ effects' = <<<<"settle", "resolve", None>>>>
            /\ UNCHANGED <<lsToken, lsUser, navPending>>
       ELSE LET st == ResponseInterceptor(resp, StoreNow) IN
            /\ lsToken' = st.token
            /\ lsUser' = st.user
            /\ navPending' = st.nav
            /\ effects' = st.fx \o <<<<"settle", "reject", None>>>>
            /\ UNCHANGED <<invalidated, cache>>
    /\ UNCHANGED <<defaultsAuth, user, authLoading, path, server>>
    /\ UNCHANGED langVars
    /\ sentWith' = [sentWith EXCEPT ![k] = None]
    /\ cachedWith' = [cachedWith EXCEPT ![k] = IF cache'[k] = Absent THEN None
                                             ELSE IF resp.status = 200 THEN sentWith[k]
                                             ELSE cachedWith[k]]
    /\ UNCHANGED formVars

\* Variant that starts a refetch although a fetch of the key is running
InvalidateQueries_NoDedup(filter, c) ==
    LET matched == {k \in QueryKeys : Matches(filter, k)}
        refetch == {k \in matched : user # None /\ k \in QueriesOf(path)}
        sends == IF refetch = {} THEN <<>>
                 ELSE <<Send(CHOOSE k \in refetch : TRUE)>>
    IN [inflight |-> c.inflight (+) SetToBag(refetch),
        invalidated |-> c.invalidated \cup matched,
        fx |-> c.fx \o <<<<"invalidate", filter, None>>>> \o sends,
        asOf |-> [k \in QueryKeys |-> IF k \in refetch THEN c.now ELSE c.asOf[k]],
        now |-> c.now]

\* queryClient.invalidateQueries(filter): matching queries are marked
\* invalidated; those with a mounted observer refetch at once unless a fetch
\* of the key is already running.  c = [inflight, invalidated, fx, asOf, now]
InvalidateQueries(filter, c) ==
    LET matched == {k \in QueryKeys : Matches(filter, k)}
        refetch == {k \in matched : user # None /\ k \in QueriesOf(path)
                                    /\ Count(c.inflight, k) = 0}
        sends == IF refetch = {} THEN <<>>
                 ELSE <<Send(CHOOSE k \in refetch : TRUE)>>
    IN [inflight |-> c.inflight (+) SetToBag(refetch),
        invalidated |-> c.invalidated \cup matched,
        fx |-> c.fx \o <<<<"invalidate", filter, None>>>> \o sends,
        asOf |-> [k \in QueryKeys |-> IF k \in refetch THEN c.now ELSE c.asOf[k]],
        now |-> c.now]

RECURSIVE InvalidateAll(_, _)
InvalidateAll(keys, c) ==
    IF keys = <<>> THEN c
    ELSE InvalidateAll(Tail(keys), InvalidateQueries(Head(keys), c))

\* Variant of onSuccess that shows the toast before it invalidates
MutationOnSuccess_ToastFirst(m, c) ==
    InvalidateAll(InvalidateKeys(m),
                  [c EXCEPT !.fx = @ \o <<<<"toast", "success", SuccessText(m)>>>>])

\* onSuccess of a mutation: the invalidations, then the success toast
MutationOnSuccess(m, c) ==
    LET d == InvalidateAll(InvalidateKeys(m), c)
    IN [d EXCEPT !.fx = @ \o <<<<"toast", "success", SuccessText(m)>>>>]

\* onError of a mutation: the message the error toast shows
MutationOnError(m, resp) ==
    IF m \in SettingsMutations
    THEN FallbackText(m)
    ELSE OrElse(ResponseError(resp), FallbackText(m))

\* Variant with an onMutate that patches the mutation's entries in place
Mutate_Optimistic(m) ==
    /\ user # None
    /\ m \in MutationsOf(path)
    /\ m \in FormMutations => submitting = None
    /\ inflight' = Add(inflight, m)
    /\ submitting' = IF m \in FormMutations THEN m ELSE submitting
    /\ UNCHANGED <<showAddForm, editing>>
    /\ cache' = [k \in QueryKeys |->
                    IF \E i \in 1..Len(InvalidateKeys(m)) :
                            Matches(InvalidateKeys(m)[i], k)
                    THEN MaxWrites ELSE cache[k]]
    /\ effects' = <<Send(m)>>
    /\ UNCHANGED <<lsToken, lsUser, defaultsAuth, user, authLoading, path,
                   navPending, invalidated, server, asOf>>
    /\ UNCHANGED langVars
    /\ UNCHANGED <<sentWith, cachedWith>>

\* mutation.mutate(...) of the mounted page: the request leaves and, for the
\* mutations of the add/edit form, isLoading disables the submit control.
\* `before` and `after` are what the calling handler shows around the send.
MutateWith(m, before, after) ==
    /\ user # None
    /\ m \in MutationsOf(path)
    /\ m \in FormMutations => submitting = None
    /\ inflight' = Add(inflight, m)
    /\ submitting' = IF m \in FormMutations THEN m ELSE submitting
    /\ effects' = before \o <<Send(m)>> \o after
    /\ UNCHANGED <<lsToken, lsUser, defaultsAuth, user, authLoading, path,
                   navPending, invalidated, server, cache, asOf>>
    /\ UNCHANGED langVars
    /\ UNCHANGED <<sentWith, cachedWith, showAddForm, editing>>

\* mutation.mutate(...) seen without the form around it: a submission or a
\* row action of the mounted page whose control is not disabled
Mutate(m) == MutateWith(m, <<>>, <<>>)

\* Variant of handleDelete that deletes whether or not the user confirmed
HandleDelete_NoConfirm(id, ok) ==
    /\ PageShown
    /\ cache[ListKey(path)] # Absent
    /\ MutateWith(DeleteOf(path), <<<<"confirm", id, ok>>>>,
                  <<<<"target", DeleteOf(path), id>>>>)

\* handleDelete(id) of a row: window.confirm, then deleteMutation.mutate(id)
HandleDelete(id, ok) ==
    /\ PageShown
    /\ cache[ListKey(path)] # Absent
    /\ IF ok
       THEN MutateWith(DeleteOf(path), <<<<"confirm", id, ok>>>>,
                       <<<<"target", DeleteOf(path), id>>>>)
       ELSE /\ effects' = <<<<"confirm", id, ok>>>>
            /\ UNCHANGED <<lsToken, lsUser, defaultsAuth, user, authLoading, path,
                           navPending, inflight, invalidated, server, cache, asOf>>
            /\ UNCHANGED langVars
            /\ UNCHANGED <<sentWith, cachedWith>>
            /\ UNCHANGED formVars

\* onSubmit of the add/edit form: an update of the record being edited, or a create
OnSubmit ==
    /\ PageShown
    /\ showAddForm
    /\ LET m == IF editing # None THEN UpdateOf(path) ELSE CreateOf(path) IN
       MutateWith(m, <<>>, <<<<"target", m, editing>>>>)

\* what only changes the component state of the mounted page
FormStep(show, edit) ==
    /\ PageShown
    /\ showAddForm' = show
    /\ editing' = edit
    /\ effects' = <<>>
    /\ UNCHANGED <<lsToken, lsUser, defaultsAuth, user, authLoading, path,
                   navPending, inflight, invalidated, server, cache, asOf>>
    /\ UNCHANGED langVars
    /\ UNCHANGED <<sentWith, cachedWith, submitting>>

\* the add button of the page header: setShowAddForm(true), setEditing(null)
OpenAdd == FormStep(TRUE, None)

\* the add button of the Budgets empty state: setShowAddForm(true) only.
\* The rows of the list are not followed, so the list may be empty at any time.
EmptyStateAdd ==
    /\ path = "/budgets"
    /\ FormStep(TRUE, editing)

\* handleEdit(record) of a row: setEditing(record), setShowAddForm(true)
HandleEdit(id) ==
    /\ cache[ListKey(path)] # Absent
    /\ FormStep(TRUE, id)

\* the cancel button of the form: setShowAddForm(false), setEditing(null)
Cancel ==
    /\ showAddForm
    /\ FormStep(FALSE, None)

\* Variant whose onError invalidates the mutation's keys as onSuccess does
MutationResponse_InvalidatesOnError(m, resp) ==
    /\ m \in Mutations
    /\ Count(inflight, m) > 0
    /\ LET st == IF resp.status = 200 THEN StoreNow
                 ELSE ResponseInterceptor(resp, StoreNow)
           applied == IF resp.status = 200 /\ Writes(m) /\ resp.applied
                      THEN server + 1 ELSE server
           c == InvalidateAll(InvalidateKeys(m),
                    [inflight |-> Remove(inflight, m),
                     invalidated |-> invalidated,
                     fx |-> st.fx,
                     asOf |-> asOf,
                     now |-> applied])
       IN /\ applied <= MaxWrites
          /\ server' = applied
          /\ lsToken' = st.token
          /\ lsUser' = st.user
          /\ navPending' = st.nav
          /\ inflight' = c.inflight
          /\ invalidated' = c.invalidated
          /\ asOf' = c.asOf
          /\ effects' = c.fx \o (IF resp.status = 200
                                  THEN <<<<"toast", "success", SuccessText(m)>>>>
                                  ELSE <<<<"toast", "error", MutationOnError(m, resp)>>>>)
    /\ UNCHANGED <<defaultsAuth, user, authLoading, path, cache>>
    /\ UNCHANGED langVars
    /\ sentWith' = [k \in QueryKeys |-> IF asOf'[k] # Absent /\ asOf[k] = Absent
                                        THEN AuthHeader ELSE sentWith[k]]
    /\ UNCHANGED cachedWith
    /\ \E own \in Owns(m) :
          LET f == FormAfter(m, resp, own) IN
          /\ showAddForm' = f.showAddForm
          /\ editing' = f.editing
          /\ submitting' = f.submitting

\* The response of a mutation: response interceptor, then onSuccess / onError
MutationResponse(m, resp) ==
    /\ m \in Mutations
    /\ Count(inflight, m) > 0
    /\ IF resp.status = 200
       THEN LET applied == IF Writes(m) /\ resp.applied THEN server + 1 ELSE server
                c == MutationOnSuccess(m,
                        [inflight |-> Remove(inflight, m),
                         invalidated |-> invalidated,
                         fx |-> <<<<"settle", "resolve", None>>>>,
                         asOf |-> asOf,
                         now |-> applied])
            IN /\ applied <= MaxWrites
               /\ server' = applied
               /\ inflight' = c.inflight
               /\ invalidated' = c.invalidated
               /\ asOf' = c.asOf
               /\ effects' = c.fx
               /\ UNCHANGED <<lsToken, lsUser, navPending>>
       ELSE LET st == ResponseInterceptor(resp, StoreNow) IN
            /\ lsToken' = st.token
            /\ lsUser' = st.user
            /\ navPending' = st.nav
            /\ inflight' = Remove(inflight, m)
            /\ effects' = st.fx \o <<<<"settle", "reject", None>>,
                                     <<"toast", "error", MutationOnError(m, resp)>>>>
            /\ UNCHANGED <<invalidated, server, asOf>>
    /\ UNCHANGED <<defaultsAuth, user, authLoading, path, cache>>
    /\ UNCHANGED langVars
    /\ sentWith' = [k \in QueryKeys |-> IF asOf'[k] # Absent /\ asOf[k] = Absent
                                        THEN AuthHeader ELSE sentWith[k]]
    /\ UNCHANGED cachedWith
    /\ \E own \in Owns(m) :
          LET f == FormAfter(m, resp, own) IN
          /\ showAddForm' = f.showAddForm
          /\ editing' = f.editing
          /\ submitting' = f.submitting

\* Header.toggleLanguage: the globe button of the layout's header
ToggleLanguage ==
    /\ user # None
    /\ LET l == ChangeLanguage(IF language = "en" THEN "fa" ELSE "en", lsLanguage) IN
       /\ language' = l.language
       /\ direction' = l.direction
       /\ lsLanguage' = l.stored
    /\ effects' = <<>>
    /\ UNCHANGED <<lsToken, lsUser, defaultsAuth, user, authLoading, path,
                   navPending, inflight, invalidated, server, cache, asOf>>
    /\ UNCHANGED <<sentWith, cachedWith>>
    /\ UNCHANGED formVars

\* Settings.handleLanguageChange: one of the two language buttons
HandleLanguageChange(newLanguage) ==
    /\ user # None
    /\ path = "/settings"
    /\ LET l == ChangeLanguage(newLanguage, lsLanguage) IN
       /\ language' = l.language
       /\ direction' = l.direction
       /\ lsLanguage' = l.stored
    /\ effects' = <<<<"toast", "success", "Language changed successfully">>>>
    /\ UNCHANGED <<lsToken, lsUser, defaultsAuth, user, authLoading, path,
                   navPending, inflight, invalidated, server, cache, asOf>>
    /\ UNCHANGED <<sentWith, cachedWith>>
    /\ UNCHANGED formVars

\* Process start: a new document.  In-memory state is rebuilt from the
\* Token Store; requests of the old document are gone.
ProcessStart(p) ==
    LET a == AuthInit(lsToken, lsUser) IN
    /\ defaultsAuth' = a.defaults
    /\ user' = a.user
    /\ path' = Render(p, a.user)
    /\ authLoading' = FALSE
    /\ navPending' = FALSE
    /\ inflight' = NoRequests
    /\ invalidated' = {}
    /\ cache' = NoData
    /\ asOf' = NoData
    /\ language' = LanguageInit(lsLanguage).language
    /\ direction' = LanguageInit(lsLanguage).direction
    /\ effects' = <<>>
    /\ UNCHANGED <<lsToken, lsUser, server, lsLanguage>>
    /\ sentWith' = NoTags /\ cachedWith' = NoTags
    /\ showAddForm' = NoForm.showAddForm /\ editing' = NoForm.editing /\ submitting' = NoForm.submitting

\* The navigation the response interceptor asked for replaces the document
NavigationCompletes ==
    /\ navPending
    /\ ProcessStart("/login")

\* The user reloads the page or opens a location in the address bar
PageReload(p) ==
    /\ ProcessStart(p)

\* The exploration lets the user and the timers start a request only while
\* fewer than the bound are awaiting their response
Room == Total(inflight) < MaxInflight

Next ==
    \/ Room /\ \E kind \in AuthKinds : Submit(kind)
    \/ \E kind \in AuthKinds, resp \in AuthSuccesses \cup FailureResponses :
          AuthResponse(kind, resp)
    \/ Logout
    \/ \E p \in Paths : Navigate(p)
    \/ Room /\ \E k \in QueryKeys : FetchQuery(k)
    \/ \E k \in QueryKeys, resp \in {PlainSuccess} \cup FailureResponses :
          QueryResponse(k, resp)
    \/ Room /\ \E m \in Mutations : Mutate(m)
    \/ \E m \in Mutations, resp \in {PlainSuccess} \cup FailureResponses :
          MutationResponse(m, resp)
    \/ ToggleLanguage
    \/ \E l \in Languages : HandleLanguageChange(l)
    \/ NavigationCompletes
    \/ \E p \in Paths : PageReload(p)

Spec == Init /\ [][Next]_vars

\* Assigning window.location.href always ends with the document replaced
LiveSpec == Spec /\ WF_vars(NavigationCompletes)

\* The query cache under one logged-in user: the same handlers, with the
\* backend's answers carrying data.  Reads show a version of the data, writes
\* are applied, a failure is a server error without a message.
CachePaths == {"/dashboard", "/transactions", "/budgets"}

CacheFailures == {r \in FailureResponses : r.status = 500 /\ r.error = None}

CacheLogin == [status |-> 200, error |-> None, token |-> "t1", user |-> "u1"]

CacheMutations == {"createTransaction", "createBudget"}

CacheRoom == Total(inflight) < MaxOverlap

CacheNext ==
    \/ CacheRoom /\ Submit("login")
    \/ AuthResponse("login", CacheLogin)
    \/ \E p \in CachePaths : Navigate(p)
    \/ CacheRoom /\ \E k \in QueryKeys : FetchQuery(k)
    \/ \E k \in QueryKeys, resp \in ReadSuccesses \cup CacheFailures :
          QueryResponse(k, resp)
    \/ CacheRoom /\ \E m \in CacheMutations : Mutate(m)
    \/ \E m \in CacheMutations, resp \in {WriteSuccess} \cup CacheFailures :
          MutationResponse(m, resp)
    \/ PageReload("/dashboard")

CacheSpec == Init /\ [][CacheNext]_vars

----------------------------------------------------------------------------
----------------------------------------------------------------------------
\* Sessions that follow one another: signing in, out and in again with another
\* token while reads are awaiting their response, and reads rejected with 401.

SessionPaths == {"/dashboard", "/budgets"}

SessionKeys == DashboardQueries \cup BudgetsQueries

\* a read is answered with the current data or rejected as unauthenticated
SessionAnswers ==
    {r \in ReadSuccesses : r.data = 0}
    \cup {r \in FailureResponses : r.status = 401 /\ r.error = None}

SessionNext ==
    \/ CacheRoom /\ Submit("login")
    \/ \E resp \in AuthSuccesses : AuthResponse("login", resp)
    \/ Logout
    \/ \E p \in SessionPaths : Navigate(p)
    \/ CacheRoom /\ \E k \in SessionKeys : FetchQuery(k)
    \/ \E k \in SessionKeys, resp \in SessionAnswers : QueryResponse(k, resp)
    \/ NavigationCompletes
    \/ PageReload("/dashboard")

SessionSpec == Init /\ [][SessionNext]_vars

----------------------------------------------------------------------------
\* The add/edit form and the row buttons of the Transactions and Budgets
\* pages, with the list loaded, answered and reloaded around them.

FormPaths == {"/dashboard"} \cup FormPages

ListKeys == {ListKey(p) : p \in FormPages}

FormAnswers == ReadSuccesses \cup CacheFailures

MutationAnswers == {PlainSuccess, WriteSuccess} \cup CacheFailures

FormNext ==
    \/ CacheRoom /\ Submit("login")
    \/ AuthResponse("login", CacheLogin)
    \/ \E p \in FormPaths : Navigate(p)
    \/ CacheRoom /\ \E k \in ListKeys : FetchQuery(k)
    \/ \E k \in ListKeys, resp \in FormAnswers : QueryResponse(k, resp)
    \/ OpenAdd
    \/ EmptyStateAdd
    \/ \E id \in RecordIds : HandleEdit(id)
    \/ Cancel
    \/ CacheRoom /\ OnSubmit
    \/ CacheRoom /\ \E id \in RecordIds : HandleDelete(id, TRUE)
    \/ \E id \in RecordIds : HandleDelete(id, FALSE)
    \/ \E m \in FormMutations \cup Deletes, resp \in MutationAnswers :
          MutationResponse(m, resp)
    \/ PageReload("/transactions")

FormSpec == Init /\ [][FormNext]_vars

----------------------------------------------------------------------------
\* Vocabulary of the properties

IsSend(e) == e[1] = "send"

Redirected == \E i \in 1..Len(effects) : effects[i][1] = "redirect"

Redirected2 == \E i \in 1..Len(effects') : effects'[i][1] = "redirect"

RejectedToCaller ==
    \E i \in 1..Len(effects') : effects'[i] = <<"settle", "reject", None>>

StoreEmpty == lsToken = None /\ lsUser = None

\* some request's response `resp` is handled in this step
Handles(k, resp) ==
    \/ k \in AuthKinds /\ AuthResponse(k, resp)
    \/ k \in QueryKeys /\ QueryResponse(k, resp)
    \/ k \in Mutations /\ MutationResponse(k, resp)

\* requests awaiting a response, and the failures by kind
Pending == BagToSet(inflight)

Rejections401 == {r \in FailureResponses : r.status = 401}

OtherFailures == {r \in FailureResponses : r.status # 401}

StartsProcess == NavigationCompletes \/ \E p \in Paths : PageReload(p)

TypeOK ==
    /\ lsToken \in Tokens \cup {None}
    /\ lsUser \in Users \cup {None}
    /\ defaultsAuth \in Tokens \cup {None}
    /\ user \in Users \cup {None}
    /\ authLoading \in BOOLEAN
    /\ path \in Paths
    /\ navPending \in BOOLEAN
    /\ IsABag(inflight)
    /\ BagToSet(inflight) \subseteq Kinds
    /\ invalidated \subseteq QueryKeys
    /\ server \in 0..MaxWrites
    /\ cache \in [QueryKeys -> Absent..MaxWrites]
    /\ asOf \in [QueryKeys -> Absent..MaxWrites]
    /\ \A k \in QueryKeys : (asOf[k] # Absent) <=> (Count(inflight, k) > 0)
    /\ language \in Languages
    /\ direction \in {"ltr", "rtl"}
    /\ lsLanguage \in Languages \cup {None}
    /\ sentWith \in [QueryKeys -> Tokens \cup {None}]
    /\ cachedWith \in [QueryKeys -> Tokens \cup {None}]
    /\ \A k \in QueryKeys : (sentWith[k] # None) <=> (Count(inflight, k) > 0)
    /\ \A k \in QueryKeys : (cachedWith[k] # None) <=> (cache[k] # Absent)
    /\ showAddForm \in BOOLEAN
    /\ editing \in RecordIds \cup {None}
    /\ submitting \in FormMutations \cup {None}
    /\ submitting # None => Count(inflight, submitting) > 0

----------------------------------------------------------------------------
\* C1: every dispatched request carries an Authorization header exactly when
\* a token is in the Token Store at dispatch time, and the header is built
\* from that stored token.
C1_HeaderIffStoredToken ==
    \A i \in 1..Len(effects) : IsSend(effects[i]) => effects[i][3] = lsToken

\* C2: immediately after the response interceptor handled a 401, whatever
\* request it answers, the Token Store holds neither token nor identity.
C2_StoreEmptyAfter401 ==
    [][\A k \in Pending, resp \in Rejections401 :
          Handles(k, resp) => StoreEmpty']_vars

C2_Witness ==
    /\ StoreEmpty
    /\ user # None
    /\ effects = <<<<"redirect", "/login", None>>,
                   <<"settle", "reject", None>>,
                   <<"toast", "error", ServerMsg>>>>

\* C3: a 401 handled while the session is Authenticated clears the stored
\* identity and signals the navigation to /login, and the application then
\* reaches Unauthenticated with no protected page rendered.
C3_ForcedLogout ==
    /\ [][\A k \in Pending, resp \in Rejections401 :
            (user # None /\ Handles(k, resp))
                => (lsUser' = None /\ navPending' /\ Redirected2)]_vars
    /\ (user # None /\ Redirected)
          ~> (Session = "Unauthenticated" /\ path \notin ProtectedPaths)

C3_Witness ==
    /\ user # None
    /\ path \in ProtectedPaths
    /\ Redirected
    /\ lsUser = None
    /\ navPending

C7_FailedSubmission ==
    [][\A kind \in Pending \cap AuthKinds, resp \in FailureResponses :
          AuthResponse(kind, resp)
              => /\ Session' = "Unauthenticated"
                 /\ StoreEmpty'
                 /\ \E i \in 1..Len(effects') :
                       effects'[i] = <<"toast", "error",
                                       IF resp.status # 0 /\ resp.error # None
                                       THEN resp.error ELSE FallbackText(kind)>>]_vars

C7_Witness ==
    /\ Session = "Unauthenticated"
    /\ StoreEmpty
    /\ path = "/login"
    /\ effects = <<<<"redirect", "/login", None>>,
                   <<"settle", "reject", None>>,
                   <<"toast", "error", ServerMsg>>>>

\* C8: a process start over a stored token gives Authenticated without any
\* request being sent; the session then stays Authenticated until a logout
\* or a 401; the first 401 empties the Token Store and signals the
\* navigation, and the process start that follows is Unauthenticated.
C8_OptimisticStart ==
    /\ [][StartsProcess
            => /\ UNCHANGED <<lsToken, lsUser>>
               /\ inflight' = NoRequests
               /\ effects' = <<>>
               /\ IF lsToken # None
                  THEN Session' = "Authenticated"
                  ELSE Session' = "Unauthenticated"]_vars
    /\ [][(Session = "Authenticated" /\ Session' # "Authenticated")
            => (Logout \/ (StoreEmpty /\ StartsProcess))]_vars
    /\ [][\A k \in Pending, resp \in Rejections401 :
            (Session = "Authenticated" /\ Handles(k, resp))
                => (StoreEmpty' /\ navPending')]_vars

C8_Witness ==
    /\ Session = "Authenticated"
    /\ lsToken # None
    /\ defaultsAuth # None
    /\ effects = <<>>
    /\ inflight = NoRequests
    /\ path = "/settings"
    /\ invalidated = {}
    /\ ~navPending

\* C9: an explicit logout leaves the session Unauthenticated with token and
\* identity absent, and while no user is logged in again every dispatched
\* request goes out without an Authorization header.
C9_LogoutDropsHeader ==
    /\ [][Logout => (Session' = "Unauthenticated" /\ StoreEmpty')]_vars
    /\ [](user = None
            => \A i \in 1..Len(effects) : IsSend(effects[i]) => effects[i][3] = None)

C9_Witness ==
    /\ user = None
    /\ StoreEmpty
    /\ invalidated # {}
    /\ effects = <<<<"send", "login", None>>>>

----------------------------------------------------------------------------
\* Vocabulary of the query cache properties

Toasts(fx) == SelectSeq(fx, LAMBDA e : e[1] = "toast")

Sends(fx) == SelectSeq(fx, LAMBDA e : e[1] = "send")

Invalidations(fx) == SelectSeq(fx, LAMBDA e : e[1] = "invalidate")

\* C11: handling a failed mutation invalidates no key, changes no cache
\* entry's value, leaves every entry's staleness as it was (none marked
\* invalidated, none refetching) and emits one notification, the error toast.
C11_FailedMutationLeavesCache ==
    [][\A m \in Pending \cap Mutations, resp \in FailureResponses :
          MutationResponse(m, resp)
              => /\ invalidated' = invalidated
                 /\ cache' = cache
                 /\ asOf' = asOf
                 /\ inflight' = Remove(inflight, m)
                 /\ Invalidations(effects') = <<>>
                 /\ Sends(effects') = <<>>
                 /\ Len(Toasts(effects')) = 1
                 /\ Toasts(effects')[1][2] = "error"]_vars

C11_Witness ==
    /\ effects = <<<<"settle", "reject", None>>,
                   <<"toast", "error", "Failed to create transaction">>>>
    /\ cache["transactions"] = 0
    /\ cache["recent-transactions"] = 1
    /\ "transactions" \in invalidated
    /\ Count(inflight, "transactions") = 0

\* C12: the error toast of every failed mutation shows the server's error
\* message when the failed response carries one, and the mutation's fallback
\* text only when it carries none.
C12_ErrorToastCarriesServerMessage ==
    [][\A m \in Pending \cap Mutations, resp \in FailureResponses :
          MutationResponse(m, resp)
              => Toasts(effects') =
                    <<<<"toast", "error",
                        IF resp.status # 0 /\ resp.error # None
                        THEN resp.error ELSE FallbackText(m)>>>>]_vars

\* C13: once a successful mutation has been handled, every cache entry that
\* holds data computed from the resource the mutation changed is marked
\* invalidated, whichever view it belongs to.
C13_DependentEntriesInvalidated ==
    [][\A m \in Pending \cap Mutations :
          MutationResponse(m, WriteSuccess)
              => \A k \in QueryKeys :
                    (cache[k] # Absent /\ WritesTo(m) \cap ReadsFrom(k) # {})
                        => k \in invalidated']_vars

\* C14: the invalidation run by a successful mutation marks every matching
\* entry invalidated and, where the entry's view is mounted, sends a request
\* for it in the same step, so that the request whose answer will be taken as
\* current was sent after the write; an entry without a mounted view keeps
\* its mark until a refetch of it succeeded.
C14_InvalidateRefetches ==
    /\ [][\A m \in Pending \cap Mutations :
            MutationResponse(m, WriteSuccess)
                => \A n \in 1..Len(InvalidateKeys(m)) : \A k \in QueryKeys :
                      Matches(InvalidateKeys(m)[n], k)
                          => /\ k \in invalidated'
                             /\ k \in QueriesOf(path)
                                   => /\ \E i \in 1..Len(effects') :
                                            effects'[i] = <<"send", k, lsToken>>
                                      /\ asOf'[k] = server']_vars
    /\ [][\A k \in invalidated :
            k \notin invalidated'
                => \/ \E resp \in ReadSuccesses : QueryResponse(k, resp)
                   \/ StartsProcess]_vars

\* C15: however many views read a key while a request for it is awaited, the
\* key has one request in flight: a read sends a request only when none is
\* running, and the one answer fills the one entry every reader of the key
\* is served from, leaving no reader waiting.
C15_OneRequestPerKey ==
    /\ [](\A k \in QueryKeys : Count(inflight, k) <= 1)
    /\ [][\A k \in QueryKeys :
            (\E i \in 1..Len(effects') : effects'[i] = <<"send", k, lsToken>>)
                => (Count(inflight, k) = 0 /\ Count(inflight', k) = 1)]_vars
    /\ [][\A k \in Pending \cap QueryKeys, resp \in ReadSuccesses :
            QueryResponse(k, resp)
                => (cache'[k] = resp.data /\ Count(inflight', k) = 0)]_vars

\* the dashboard's request for 'budget-status' is awaited while the budgets
\* page, which reads the same key, is mounted
C15_Witness ==
    /\ path = "/budgets"
    /\ Count(inflight, "budget-status") = 1
    /\ cache["budget-status"] = Absent
    /\ effects = <<>>

\* C16: whenever a view sends a read to be cached under a key, every view's
\* query that makes the same call (same endpoint, same parameters) uses that
\* same key, and every query under that key makes that same call.
C16_KeyPerCall ==
    \A i \in 1..Len(effects) :
        (IsSend(effects[i]) /\ effects[i][2] \in QueryKeys)
            => \A p \in Paths : \A k \in QueriesOf(p) :
                  (Request(k) = Request(effects[i][2])) <=> (k = effects[i][2])

\* C17: a failed fetch of a key changes no entry of the cache, so a key that
\* holds data still holds that data after its refresh failed; an entry with
\* data loses it only when a new document starts with an empty cache.
C17_RefreshFailureKeepsData ==
    /\ [][\A k \in Pending \cap QueryKeys, resp \in FailureResponses :
            QueryResponse(k, resp) => cache' = cache]_vars
    /\ [][\A k \in QueryKeys :
            (cache[k] # Absent /\ cache'[k] = Absent) => StartsProcess]_vars

\* the refetch that followed a write failed: the list loaded before stays
C17_Witness ==
    /\ path = "/transactions"
    /\ effects = <<<<"settle", "reject", None>>>>
    /\ cache["transactions"] = 0
    /\ server = 1
    /\ "transactions" \in invalidated
    /\ Count(inflight, "transactions") = 0

\* C18: the data of an entry changes only when a successful answer for its
\* key is handled, and then to that answer's payload, which shows a strictly
\* newer version than the data it replaces; an answer that is handled was
\* requested no earlier than the data in place was produced.  (A new
\* document starts with an empty cache.)
C18_NewerResponseWins ==
    /\ [][\A k \in QueryKeys :
            cache'[k] # cache[k]
                => \/ \E resp \in ReadSuccesses :
                         /\ QueryResponse(k, resp)
                         /\ cache'[k] = resp.data
                         /\ resp.data > cache[k]
                   \/ StartsProcess]_vars
    /\ [][\A k \in Pending \cap QueryKeys, resp \in ReadSuccesses :
            QueryResponse(k, resp) => asOf[k] >= cache[k]]_vars

\* the list loaded before the write has been replaced by the one after it,
\* next to an entry that still shows the older version
C18_Witness ==
    /\ path = "/transactions"
    /\ effects = <<<<"settle", "resolve", None>>>>
    /\ cache["transactions"] = 1
    /\ cache["transaction-categories"] = 0
    /\ "transactions" \notin invalidated
    /\ inflight = NoRequests

\* an API-service operation is called in this step
Calls(kind) ==
    \/ kind \in AuthKinds /\ Submit(kind)
    \/ kind \in QueryKeys /\ FetchQuery(kind)
    \/ kind \in Mutations /\ Mutate(kind)

C20_MutationsWrite ==
    \A i \in 1..Len(effects) :
        (IsSend(effects[i]) /\ effects[i][2] \in Mutations)
            => /\ Writes(effects[i][2])
               /\ effects[i][2] = "updateProfile"
                     => Request(effects[i][2]).body = "form"

\* C21: neither the dispatch of a mutation nor its response, successful or
\* failed, writes a cache entry; the data of the cache changes only when the
\* response of a fetch is handled (or a new document starts empty).
C21_PessimisticMutations ==
    [][/\ \A m \in Mutations : Mutate(m) => cache' = cache
       /\ \A m \in Pending \cap Mutations,
              resp \in {WriteSuccess} \cup FailureResponses :
             MutationResponse(m, resp) => cache' = cache
       /\ cache' # cache
             => \/ \E k \in Pending \cap QueryKeys, resp \in ReadSuccesses :
                     QueryResponse(k, resp)
                \/ StartsProcess]_vars

\* a create is on its way while the list still shows the data loaded before
C21_Witness ==
    /\ path = "/transactions"
    /\ Count(inflight, "createTransaction") = 1
    /\ cache["transactions"] = 0
    /\ server = 0
    /\ effects = <<<<"send", "createTransaction", lsToken>>>>

\* C22: without a user the rendered page is the login or the register form
\* and every other location leads to /login; with a user the rendered page is
\* one of the five pages and /login and /register lead to /dashboard.
C22_GuardedRoutes ==
    /\ user = None
          => /\ path \in {"/login", "/register"}
             /\ \A p \in Paths \ {"/login", "/register"} : Render(p, user) = "/login"
    /\ user # None
          => /\ path \in ProtectedPaths
             /\ \A p \in {"/login", "/register"} : Render(p, user) = "/dashboard"

\* the user signed out on the budgets page while its list was still loading:
\* the login form is shown
C22_Witness ==
    /\ user = None
    /\ path = "/login"
    /\ Count(inflight, "budgets") = 1
    /\ ~navPending

\* C23: the language in use is the stored preference, and 'en' while nothing
\* is stored; a changeLanguage call stores the language it was given, nothing
\* else writes the preference, and a new document starts in the stored language.
C23_LanguagePersists ==
    /\ [](language = OrElse(lsLanguage, "en"))
    /\ [][/\ \A l \in Languages :
               HandleLanguageChange(l) => lsLanguage' = l /\ language' = l
          /\ ToggleLanguage => lsLanguage' = language' /\ language' # language
          /\ lsLanguage' # lsLanguage
                => ToggleLanguage \/ \E l \in Languages : HandleLanguageChange(l)
          /\ StartsProcess => language' = OrElse(lsLanguage, "en")]_vars

\* Persian was chosen in an earlier session and is in use on the login form
C23_Witness ==
    /\ user = None
    /\ lsToken = None
    /\ path = "/login"
    /\ lsLanguage = "fa"
    /\ language = "fa"
    /\ effects = <<>>

\* C24: the layout direction is 'rtl' exactly while the language is 'fa', and
\* 'ltr' otherwise.
C24_DirectionFollowsLanguage ==
    /\ direction = "rtl" <=> language = "fa"
    /\ direction = "ltr" <=> language # "fa"

\* Persian has just been chosen on the settings page
C24_Witness ==
    /\ path = "/settings"
    /\ language = "fa"
    /\ direction = "rtl"
    /\ effects = <<<<"toast", "success", "Language changed successfully">>>>

\* C25: a 401 that answers a read sent with another token than the one now
\* stored leaves the stored token and identity of the newer login in place.
C25_Stale401KeepsNewSession ==
    [][\A k \in Pending \cap QueryKeys, resp \in Rejections401 :
          (QueryResponse(k, resp) /\ lsToken # None /\ sentWith[k] # lsToken)
              => lsToken' = lsToken /\ lsUser' = lsUser]_vars

\* the Token Store, the navigation signal and what the application shows
ForcedOut == <<lsToken, lsUser, defaultsAuth, navPending, user, path, cache, invalidated>>

\* C26: every 401 that is handled leaves the Token Store empty and the
\* navigation to the login screen requested, and rejects its own request to
\* its caller; a 401 handled after the forced logout has already happened
\* changes nothing of that state, whichever request it answers.
C26_ForcedLogoutIdempotent ==
    [][\A k \in Pending, resp \in Rejections401 :
          Handles(k, resp)
              => /\ StoreEmpty' /\ navPending'
                 /\ Redirected2 /\ RejectedToCaller
                 /\ Count(inflight', k) = Count(inflight, k) - 1
                 /\ (StoreEmpty /\ navPending) => UNCHANGED ForcedOut]_vars

\* one of two dashboard reads has been answered 401 and has forced the
\* logout; the other is still to be answered
C26_Witness ==
    /\ path = "/dashboard"
    /\ StoreEmpty
    /\ navPending
    /\ Redirected
    /\ Count(inflight, "financial-summary") = 0
    /\ Count(inflight, "recent-transactions") = 1

\* C27: whatever a page shows from the cache while a user is signed in was
\* fetched with the token of that session.
C27_CachePerSession ==
    (user # None /\ lsToken # None)
        => \A k \in QueriesOf(path) : cache[k] # Absent => cachedWith[k] = lsToken

\* C28: a record is marked as being edited only while the add/edit form is
\* shown, and a form opened for adding is not in edit mode, so that its
\* submission is a create.
C28_EditingOnlyWhileFormShown ==
    /\ [](editing # None => showAddForm)
    /\ [][(~showAddForm /\ (OpenAdd \/ EmptyStateAdd)) => editing' = None]_vars

\* submissions of a page's add/edit form awaiting their response
Submissions(p) == Count(inflight, CreateOf(p)) + Count(inflight, UpdateOf(p))

\* C29: at most one submission of a page's add/edit form, and at most one of
\* the login and register forms, is awaiting its response; while a page's
\* submission is awaiting its response the submit control of that page's
\* form is disabled.
C29_OneSubmissionInFlight ==
    /\ \A p \in FormPages :
          /\ Submissions(p) <= 1
          /\ (path = p /\ Submissions(p) > 0) => submitting # None
    /\ \A kind \in AuthKinds : Count(inflight, kind) <= 1

\* C30: a declined confirmation sends nothing and leaves the requests, the
\* cache and the session as they were; a confirmation sends exactly one
\* delete, for the confirmed record; and no delete leaves without one.
C30_DeleteOnlyConfirmed ==
    [][/\ \A id \in RecordIds :
             HandleDelete(id, FALSE)
                 => /\ Sends(effects') = <<>>
                    /\ UNCHANGED <<inflight, cache, invalidated, server,
                                   lsToken, lsUser, defaultsAuth, user, path>>
       /\ \A id \in RecordIds :
             HandleDelete(id, TRUE)
                 => /\ effects' = <<<<"confirm", id, TRUE>>, Send(DeleteOf(path)),
                                    <<"target", DeleteOf(path), id>>>>
                    /\ inflight' = Add(inflight, DeleteOf(path))
       /\ \A m \in Deletes :
             Count(inflight', m) > Count(inflight, m)
                 => \E id \in RecordIds :
                       /\ HandleDelete(id, TRUE)
                       /\ effects'[1] = <<"confirm", id, TRUE>>]_vars

\* the deletion of budget r2 has just been confirmed and its request sent
C30_Witness ==
    /\ path = "/budgets"
    /\ Count(inflight, "deleteBudget") = 1
    /\ effects = <<<<"confirm", "r2", TRUE>>, <<"send", "deleteBudget", lsToken>>,
                   <<"target", "deleteBudget", "r2">>>>

====
